---- MODULE Spec2Model ----
(***************************************************************************)
(* Model of hphp/runtime/base/attr.h: the Attr bit mask of HHVM classes,   *)
(* properties and methods, its combination and mutation operators and the  *)
(* visibility decoder.                                                     *)
(*                                                                         *)
(* A value of Attr is a 32-bit word.  It is represented by the set of the  *)
(* positions of its 1 bits (bit 0 is the least significant one), because   *)
(* the word 1u << 31 is larger than the largest integer of the model       *)
(* checker.  The conversion to int and back is modelled on the two's       *)
(* complement representation: bit 31 of the word becomes the sign of the   *)
(* int and the low 31 bits are kept.                                       *)
(***************************************************************************)
EXTENDS Integers, FiniteSets, Sequences, TLC

VARIABLES kind, attrs, nops, last, prev, op, set, what, vis, pc, tmp, args, serialized

vars == <<kind, attrs, nops, last, prev, op, set, what, vis, pc, tmp, args, serialized>>

\* Width of unsigned int, the underlying type of Attr (1u << 31 is its top bit).
AttrWidth == 32

\* The 28 bits into which Class packs its Attr.
ClassAttrBits == 28

\* Number of attrSetter calls of one definition phase.
MaxOps == 3

\* Largest number of 1 bits of a sparse input register; a dense one has
\* fewer than MaxBits 0 bits.
MaxBits == 2

BitPositions == 0 .. (AttrWidth - 1)

\* The literal 1u.
OneU == {0}

\* w << n on unsigned int: bits shifted past the top bit are dropped.
Shl(w, n) == {i + n : i \in w} \cap BitPositions

\* a & b, a | b and ~a on unsigned int.
BitAnd(a, b) == a \cap b

BitOr(a, b) == a \cup b

BitNot(a) == BitPositions \ a

\* A conversion to int that loses the top bit.
ToInt_DropSign(a) == [sign |-> FALSE, low |-> a \ {AttrWidth - 1}]

\* (int)a: the int with the bit pattern of a; its sign is bit 31.
ToInt(a) == [sign |-> (AttrWidth - 1) \in a, low |-> a \ {AttrWidth - 1}]

\* x | y on int (two's complement).
IntOr(x, y) == [sign |-> x.sign \/ y.sign, low |-> x.low \cup y.low]

\* Attr(i): the word with the bit pattern of the int i.
ToAttr(i) == i.low \cup (IF i.sign THEN {AttrWidth - 1} ELSE {})

AttrNone == {}
AttrForbidDynamicProps == Shl(OneU, 0)
AttrDeepInit == Shl(OneU, 0)
AttrPublic == Shl(OneU, 1)
AttrProtected == Shl(OneU, 2)
AttrPrivate == Shl(OneU, 3)
AttrEnum == Shl(OneU, 4)
AttrSystemInitialValue == Shl(OneU, 5)
AttrNoImplicitNullable == Shl(OneU, 6)
\* AttrStatic placed on the bit of AttrPrivate.
AttrStatic_Bit3 == Shl(OneU, 3)

AttrStatic == Shl(OneU, 4)

AttrAbstract == Shl(OneU, 5)
AttrFinal == Shl(OneU, 6)
AttrInterface == Shl(OneU, 7)
AttrLSB == Shl(OneU, 7)
AttrSupportsAsyncEagerReturn == Shl(OneU, 7)
AttrTrait == Shl(OneU, 8)
AttrNoInjection == Shl(OneU, 9)
AttrInitialSatisfiesTC == Shl(OneU, 9)
AttrUnique == Shl(OneU, 10)
AttrNoBadRedeclare == Shl(OneU, 10)
AttrInterceptable == Shl(OneU, 11)
\* AttrSealed placed on the bit of AttrUnique.
AttrSealed_Bit10 == Shl(OneU, 10)

AttrSealed == Shl(OneU, 11)

AttrLateInit == Shl(OneU, 11)
AttrNoExpandTrait == Shl(OneU, 12)
AttrNoOverride == Shl(OneU, 13)
AttrPersistent == Shl(OneU, 18)
AttrDynamicallyCallable == Shl(OneU, 19)
AttrDynamicallyConstructible == Shl(OneU, 19)
AttrBuiltin == Shl(OneU, 20)
AttrIsConst == Shl(OneU, 21)
AttrNoReifiedInit == Shl(OneU, 23)
AttrIsMethCaller == Shl(OneU, 24)
AttrIsClosureClass == Shl(OneU, 24)
AttrHasClosureCoeffectsProp == Shl(OneU, 25)
AttrHasCoeffectRules == Shl(OneU, 25)
AttrIsReadonly == Shl(OneU, 26)
AttrIsFoldable == Shl(OneU, 26)
AttrNoFCallBuiltin == Shl(OneU, 27)
AttrVariadicParam == Shl(OneU, 28)
AttrProvenanceSkipFrame == Shl(OneU, 29)
AttrEnumClass == Shl(OneU, 30)
\* The sentinel placed one bit too low, on AttrEnumClass.
AttrUnusedMaxAttr_Bit30 == Shl(OneU, 30)

AttrUnusedMaxAttr == Shl(OneU, 31)

(* The enumerators with the subject kinds marked X in the table of the
   enum's comment columns (class | property | method). *)
AttrTable ==
  {[name |-> "AttrNone", mask |-> AttrNone, kinds |-> {}],
   [name |-> "AttrForbidDynamicProps", mask |-> AttrForbidDynamicProps, kinds |-> {"Class"}],
   [name |-> "AttrDeepInit", mask |-> AttrDeepInit, kinds |-> {"Property"}],
   [name |-> "AttrPublic", mask |-> AttrPublic, kinds |-> {"Property", "Method"}],
   [name |-> "AttrProtected", mask |-> AttrProtected, kinds |-> {"Property", "Method"}],
   [name |-> "AttrPrivate", mask |-> AttrPrivate, kinds |-> {"Property", "Method"}],
   [name |-> "AttrEnum", mask |-> AttrEnum, kinds |-> {"Class"}],
   [name |-> "AttrSystemInitialValue", mask |-> AttrSystemInitialValue, kinds |-> {"Property"}],
   [name |-> "AttrNoImplicitNullable", mask |-> AttrNoImplicitNullable, kinds |-> {"Property"}],
   [name |-> "AttrStatic", mask |-> AttrStatic, kinds |-> {"Property", "Method"}],
   [name |-> "AttrAbstract", mask |-> AttrAbstract, kinds |-> {"Class", "Method"}],
   [name |-> "AttrFinal", mask |-> AttrFinal, kinds |-> {"Class", "Method"}],
   [name |-> "AttrInterface", mask |-> AttrInterface, kinds |-> {"Class"}],
   [name |-> "AttrLSB", mask |-> AttrLSB, kinds |-> {"Property"}],
   [name |-> "AttrSupportsAsyncEagerReturn", mask |-> AttrSupportsAsyncEagerReturn, kinds |-> {"Method"}],
   [name |-> "AttrTrait", mask |-> AttrTrait, kinds |-> {"Class", "Property", "Method"}],
   [name |-> "AttrNoInjection", mask |-> AttrNoInjection, kinds |-> {"Method"}],
   [name |-> "AttrInitialSatisfiesTC", mask |-> AttrInitialSatisfiesTC, kinds |-> {"Property"}],
   [name |-> "AttrUnique", mask |-> AttrUnique, kinds |-> {"Class", "Method"}],
   [name |-> "AttrNoBadRedeclare", mask |-> AttrNoBadRedeclare, kinds |-> {"Property"}],
   [name |-> "AttrInterceptable", mask |-> AttrInterceptable, kinds |-> {"Method"}],
   [name |-> "AttrSealed", mask |-> AttrSealed, kinds |-> {"Class"}],
   [name |-> "AttrLateInit", mask |-> AttrLateInit, kinds |-> {"Property"}],
   [name |-> "AttrNoExpandTrait", mask |-> AttrNoExpandTrait, kinds |-> {"Class"}],
   [name |-> "AttrNoOverride", mask |-> AttrNoOverride, kinds |-> {"Class", "Method"}],
   [name |-> "AttrPersistent", mask |-> AttrPersistent, kinds |-> {"Class", "Property", "Method"}],
   [name |-> "AttrDynamicallyCallable", mask |-> AttrDynamicallyCallable, kinds |-> {"Method"}],
   [name |-> "AttrDynamicallyConstructible", mask |-> AttrDynamicallyConstructible, kinds |-> {"Class"}],
   [name |-> "AttrBuiltin", mask |-> AttrBuiltin, kinds |-> {"Class", "Method"}],
   [name |-> "AttrIsConst", mask |-> AttrIsConst, kinds |-> {"Class", "Property"}],
   [name |-> "AttrNoReifiedInit", mask |-> AttrNoReifiedInit, kinds |-> {"Class"}],
   [name |-> "AttrIsMethCaller", mask |-> AttrIsMethCaller, kinds |-> {"Method"}],
   [name |-> "AttrIsClosureClass", mask |-> AttrIsClosureClass, kinds |-> {"Class"}],
   [name |-> "AttrHasClosureCoeffectsProp", mask |-> AttrHasClosureCoeffectsProp, kinds |-> {"Class"}],
   [name |-> "AttrHasCoeffectRules", mask |-> AttrHasCoeffectRules, kinds |-> {"Method"}],
   [name |-> "AttrIsReadonly", mask |-> AttrIsReadonly, kinds |-> {"Property"}],
   [name |-> "AttrIsFoldable", mask |-> AttrIsFoldable, kinds |-> {"Method"}],
   [name |-> "AttrNoFCallBuiltin", mask |-> AttrNoFCallBuiltin, kinds |-> {"Method"}],
   [name |-> "AttrVariadicParam", mask |-> AttrVariadicParam, kinds |-> {"Method"}],
   [name |-> "AttrProvenanceSkipFrame", mask |-> AttrProvenanceSkipFrame, kinds |-> {"Method"}],
   [name |-> "AttrEnumClass", mask |-> AttrEnumClass, kinds |-> {"Class"}],
   [name |-> "AttrUnusedMaxAttr", mask |-> AttrUnusedMaxAttr, kinds |-> {}]}

SubjectKinds == {"Class", "Property", "Method"}

\* The enumerators marked applicable to kind k (AttrNone has no mark).
FlagsOf(k) == {f \in AttrTable : k \in f.kinds}

FlagNames == {f.name : f \in AttrTable}

\* operator| written with & in place of |.
AttrOr_And(a, b) == BitAnd(a, b)

\* constexpr Attr operator|(Attr a, Attr b)
AttrOr(a, b) == ToAttr(IntOr(ToInt(a), ToInt(b)))

\* Attr& operator|=(Attr& a, const Attr& b): the value assigned to a.
AttrOrAssign(a, b) == ToAttr(IntOr(ToInt(a), ToInt(b)))

\* attrSetter whose else branch forgets the complement of what.
attrSetter_NoComplement(a, s, w) == IF s THEN AttrOrAssign(a, w) ELSE BitAnd(a, w)

\* attrSetter whose set branch toggles the bits of what.
attrSetter_Toggle(a, s, w) ==
  IF s THEN (a \ w) \cup (w \ a) ELSE BitAnd(a, BitNot(w))

\* attrSetter whose set branch assigns what instead of or-ing it in.
attrSetter_Overwrite(a, s, w) == IF s THEN w ELSE BitAnd(a, BitNot(w))

\* void attrSetter(Attr& attrs, bool set, Attr what): the value left in attrs.
attrSetter(a, s, w) == IF s THEN AttrOrAssign(a, w) ELSE BitAnd(a, BitNot(w))

VisibilityAttrs == AttrOr(AttrOr(AttrPublic, AttrProtected), AttrPrivate)

\* attrToVisibilityStr that tests AttrProtected before AttrPrivate.
attrToVisibilityStr_ProtectedFirst(a) ==
  IF BitAnd(a, AttrProtected) # {} THEN "protected"
  ELSE IF BitAnd(a, AttrPrivate) # {} THEN "private"
  ELSE "public"

\* const char* attrToVisibilityStr(Attr attr)
attrToVisibilityStr(a) ==
  IF BitAnd(a, AttrPrivate) # {} THEN "private"
  ELSE IF BitAnd(a, AttrProtected) # {} THEN "protected"
  ELSE "public"

\* hasFlag(register, flag): all bits of the flag's mask are set.
hasFlag(r, f) == BitAnd(r, f) = f

\* The 28-bit field of Class that holds a copy of the class's Attr.
PackClassAttrs(a) == {i \in a : i < ClassAttrBits}

NoLast == [n \in FlagNames |-> "none"]

Callers == {"c1", "c2"}

IdleCallers == [c \in Callers |-> "idle"]

NoTmp == [c \in Callers |-> AttrNone]

NoArgs == [c \in Callers |-> [set |-> FALSE, what |-> AttrNone]]

(***************************************************************************)
(* Definition phase of one subject: its register is constructed empty and  *)
(* is mutated by attrSetter with the flags of the subject's kind.          *)
(***************************************************************************)
Init ==
  /\ kind \in SubjectKinds
  /\ attrs = AttrNone
  /\ nops = 0
  /\ last = NoLast
  /\ prev = AttrNone
  /\ op = "init"
  /\ set = FALSE
  /\ what = AttrNone
  /\ vis = ""
  /\ pc = IdleCallers
  /\ tmp = NoTmp
  /\ args = NoArgs
  /\ serialized = TRUE

SetFlag(f, s) ==
  /\ nops < MaxOps
  /\ attrs' = attrSetter(attrs, s, f.mask)
  /\ last' = [last EXCEPT ![f.name] = IF s THEN "set" ELSE "clear"]
  /\ nops' = nops + 1
  /\ UNCHANGED <<kind, prev, op, set, what, vis, pc, tmp, args, serialized>>

Next == \E f \in FlagsOf(kind), s \in BOOLEAN : SetFlag(f, s)

Spec == Init /\ [][Next]_vars

(***************************************************************************)
(* The operators as functions of their arguments: one call of attrSetter,  *)
(* operator|, operator|= or attrToVisibilityStr on an input register.      *)
(***************************************************************************)
RECURSIVE WordsUpTo(_)
\* The words with at most n bits set.
WordsUpTo(n) ==
  IF n = 0 THEN {{}}
  ELSE LET W == WordsUpTo(n - 1) IN W \cup {w \cup {i} : w \in W, i \in BitPositions}

\* Input registers: sparse words and dense words (bit 31 included).
InputRegs == WordsUpTo(MaxBits) \cup {BitNot(w) : w \in WordsUpTo(MaxBits - 1)}

\* The masks passed as `what`: every enumerator and VisibilityAttrs.
WhatMasks == {f.mask : f \in AttrTable} \cup {VisibilityAttrs}

\* Right operands of operator| and operator|=: the masks, the word of all
\* ones and the complement of VisibilityAttrs.
OtherRegs == WhatMasks \cup {BitNot(AttrNone), BitNot(VisibilityAttrs)}

OpsInit ==
  /\ kind = "any"
  /\ attrs \in InputRegs
  /\ nops = 0
  /\ last = NoLast
  /\ prev = AttrNone
  /\ op = "init"
  /\ set = FALSE
  /\ what = AttrNone
  /\ vis = ""
  /\ pc = IdleCallers
  /\ tmp = NoTmp
  /\ args = NoArgs
  /\ serialized = TRUE

CallAttrSetter(s, w) ==
  /\ op = "init"
  /\ attrs' = attrSetter(attrs, s, w)
  /\ prev' = attrs
  /\ set' = s
  /\ what' = w
  /\ op' = "attrSetter"
  /\ UNCHANGED <<kind, nops, last, vis, pc, tmp, args, serialized>>

CallOr(b) ==
  /\ op = "init"
  /\ attrs' = AttrOr(attrs, b)
  /\ prev' = attrs
  /\ what' = b
  /\ op' = "operator|"
  /\ UNCHANGED <<kind, nops, last, set, vis, pc, tmp, args, serialized>>

CallOrAssign(b) ==
  /\ op = "init"
  /\ attrs' = AttrOrAssign(attrs, b)
  /\ prev' = attrs
  /\ what' = b
  /\ op' = "operator|="
  /\ UNCHANGED <<kind, nops, last, set, vis, pc, tmp, args, serialized>>

CallAttrToVisibilityStr ==
  /\ op = "init"
  /\ vis' = attrToVisibilityStr(attrs)
  /\ op' = "attrToVisibilityStr"
  /\ UNCHANGED <<kind, attrs, nops, last, prev, set, what, pc, tmp, args, serialized>>

OpsNext ==
  \/ \E s \in BOOLEAN, w \in WhatMasks : CallAttrSetter(s, w)
  \/ \E b \in OtherRegs : CallOr(b)
  \/ \E b \in OtherRegs : CallOrAssign(b)
  \/ CallAttrToVisibilityStr

SpecOps == OpsInit /\ [][OpsNext]_vars

(***************************************************************************)
(* Two callers of attrSetter on the same register.  A call loads the       *)
(* register, computes the new value and stores it; nothing in attrSetter   *)
(* makes the two steps atomic.  When the callers serialize their calls, a  *)
(* call starts only while no other call is between its load and its store. *)
(***************************************************************************)
\* The caller-side serialization of mutations.
MayStart(c) == serialized => \A d \in Callers \ {c} : pc[d] # "loaded"

CallArgs(k) == [set : BOOLEAN, what : {f.mask : f \in FlagsOf(k)}]

RaceInit ==
  /\ kind \in SubjectKinds
  /\ attrs = AttrNone
  /\ nops = 0
  /\ last = NoLast
  /\ prev = AttrNone
  /\ op = "init"
  /\ set = FALSE
  /\ what = AttrNone
  /\ vis = ""
  /\ pc = IdleCallers
  /\ tmp = NoTmp
  /\ args \in [Callers -> CallArgs(kind)]
  /\ serialized \in BOOLEAN

\* attrSetter reads attrs (the operand of |= or of &).
Load(c) ==
  /\ pc[c] = "idle"
  /\ MayStart(c)
  /\ tmp' = [tmp EXCEPT ![c] = attrs]
  /\ pc' = [pc EXCEPT ![c] = "loaded"]
  /\ UNCHANGED <<kind, attrs, nops, last, prev, op, set, what, vis, args, serialized>>

\* attrSetter assigns the value computed from what it read.
Store(c) ==
  /\ pc[c] = "loaded"
  /\ attrs' = attrSetter(tmp[c], args[c].set, args[c].what)
  /\ pc' = [pc EXCEPT ![c] = "done"]
  /\ UNCHANGED <<kind, nops, last, prev, op, set, what, vis, tmp, args, serialized>>

RaceNext == \E c \in Callers : Load(c) \/ Store(c)

SpecRace == RaceInit /\ [][RaceNext]_vars

(***************************************************************************)
(* Properties.                                                             *)
(***************************************************************************)
\* The masks of the flags applicable to some subject kind.
ApplicableMasks == {f.mask : f \in {g \in AttrTable : g.kinds # {}}}

\* The defined flags: every named flag but the sentinel, and VisibilityAttrs.
DefinedMasks == {f.mask : f \in {g \in AttrTable : g.name # "AttrUnusedMaxAttr"}}
                  \cup {VisibilityAttrs}

TopBit == AttrWidth - 1

\* C1: in every state of a definition phase, any two distinct flag names
\* applicable to the kind of the register have masks with no common bit.
C1_IntraKindDisjoint ==
  \A f, g \in FlagsOf(kind) :
    f.name # g.name => BitAnd(f.mask, g.mask) = AttrNone

\* A Class register holding two of its flags, and not a third one.
C1_Witness ==
  /\ kind = "Class"
  /\ nops = 2
  /\ hasFlag(attrs, AttrEnum)
  /\ hasFlag(attrs, AttrAbstract)
  /\ ~hasFlag(attrs, AttrFinal)

\* C2: attrToVisibilityStr returns one of the three strings for every
\* register: "private" when bit 3 (AttrPrivate) is set whatever the other
\* bits, "protected" when bit 2 (AttrProtected) is set and bit 3 is not, and
\* "public" otherwise, also when none of the visibility bits is set.
C2_VisibilityPriority ==
  op = "attrToVisibilityStr" =>
    /\ vis \in {"private", "protected", "public"}
    /\ (3 \in attrs) => vis = "private"
    /\ (2 \in attrs /\ 3 \notin attrs) => vis = "protected"
    /\ (2 \notin attrs /\ 3 \notin attrs) => vis = "public"

\* A register with both AttrPrivate and AttrProtected decoded to "private".
C2_Witness ==
  /\ op = "attrToVisibilityStr"
  /\ hasFlag(attrs, AttrPrivate)
  /\ hasFlag(attrs, AttrProtected)
  /\ vis = "private"

\* C3: after attrSetter(r, set, f) with f a flag applicable to some subject
\* kind, hasFlag of the result and f is exactly `set`.
C3_RoundTrip ==
  (op = "attrSetter" /\ what \in ApplicableMasks) => (hasFlag(attrs, what) = set)

\* A flag that was set in the register has been cleared by attrSetter.
C3_Witness ==
  /\ op = "attrSetter"
  /\ ~set
  /\ what = AttrStatic
  /\ hasFlag(prev, AttrStatic)
  /\ ~hasFlag(attrs, AttrStatic)

\* C4 as stated: for every flag f, VisibilityAttrs included, hasFlag of
\* a | b and f equals hasFlag(a, f) or hasFlag(b, f).
C4_UnionAnyFlag ==
  op = "operator|" =>
    \A f \in DefinedMasks :
      hasFlag(attrs, f) = (hasFlag(prev, f) \/ hasFlag(what, f))

\* C4 amended: for every flag f whose mask has at most one bit, hasFlag of
\* a | b and f equals hasFlag(a, f) or hasFlag(b, f); for a mask of several
\* bits, hasFlag(a, f) or hasFlag(b, f) implies hasFlag of a | b and f.
C4_UnionSingleBit ==
  op = "operator|" =>
    \A f \in DefinedMasks :
      /\ (hasFlag(prev, f) \/ hasFlag(what, f)) => hasFlag(attrs, f)
      /\ Cardinality(f) <= 1 =>
           (hasFlag(attrs, f) = (hasFlag(prev, f) \/ hasFlag(what, f)))

\* A union that has AttrPrivate from its right operand only and AttrPublic
\* from its left operand only.
C4_Witness ==
  /\ op = "operator|"
  /\ hasFlag(prev, AttrPublic) /\ ~hasFlag(prev, AttrPrivate)
  /\ hasFlag(what, AttrPrivate) /\ ~hasFlag(what, AttrPublic)
  /\ hasFlag(attrs, AttrPublic) /\ hasFlag(attrs, AttrPrivate)

\* C5: setting or clearing AttrUnusedMaxAttr with attrSetter changes neither
\* hasFlag of any defined flag nor attrToVisibilityStr, and no flag
\* applicable to a subject kind has bit 31 in its mask.
C5_SentinelInert ==
  /\ \A k \in SubjectKinds : \A f \in FlagsOf(k) : TopBit \notin f.mask
  /\ (op = "attrSetter" /\ what = AttrUnusedMaxAttr) =>
       /\ \A f \in DefinedMasks : hasFlag(attrs, f) = hasFlag(prev, f)
       /\ attrToVisibilityStr(attrs) = attrToVisibilityStr(prev)

\* The sentinel has been set in a register that holds AttrEnumClass and
\* AttrPrivate and did not have bit 31.
C5_Witness ==
  /\ op = "attrSetter"
  /\ set
  /\ what = AttrUnusedMaxAttr
  /\ TopBit \notin prev
  /\ TopBit \in attrs
  /\ hasFlag(attrs, AttrEnumClass)
  /\ hasFlag(attrs, AttrPrivate)

\* C6: every flag applicable to Class lies in the low 28 bits, so a Class
\* register keeps each of its flags in the 28-bit field of Class.
C6_ClassWidthBudget ==
  kind = "Class" =>
    \A f \in FlagsOf("Class") :
      hasFlag(attrs, f.mask) =>
        /\ \A i \in f.mask : i < ClassAttrBits
        /\ hasFlag(PackClassAttrs(attrs), f.mask)

\* C7: a second attrSetter call with the same flag mask and the same `set`
\* leaves the register as the first call left it.
C7_Idempotent ==
  op = "attrSetter" => attrSetter(attrs, set, what) = attrs

\* A call that changed the register by setting a mask of several bits.
C7_Witness ==
  /\ op = "attrSetter"
  /\ set
  /\ what = VisibilityAttrs
  /\ attrs # prev
  /\ hasFlag(prev, AttrProtected)

\* C8: after any sequence of attrSetter calls on an empty register with
\* flags applicable to its kind, hasFlag holds exactly of the flags whose
\* latest call had set = true, and attrToVisibilityStr is the visibility
\* flag of highest priority among them ("public" if none); after setting
\* AttrPrivate and AttrStatic on a Method register: AttrPrivate and
\* AttrStatic hold, AttrPublic does not, and the visibility is "private".
C8_LastWriteWins ==
  /\ \A f \in FlagsOf(kind) : hasFlag(attrs, f.mask) = (last[f.name] = "set")
  /\ attrToVisibilityStr(attrs) =
       (IF last["AttrPrivate"] = "set" THEN "private"
        ELSE IF last["AttrProtected"] = "set" THEN "protected"
        ELSE "public")
  /\ (/\ kind = "Method"
      /\ last = [NoLast EXCEPT !["AttrPrivate"] = "set", !["AttrStatic"] = "set"])
     => /\ hasFlag(attrs, AttrPrivate)
        /\ ~hasFlag(attrs, AttrPublic)
        /\ hasFlag(attrs, AttrStatic)
        /\ attrToVisibilityStr(attrs) = "private"

\* A Method register after three calls: AttrPrivate and AttrStatic were set
\* and AttrPublic was cleared.
C8_Witness ==
  /\ kind = "Method"
  /\ nops = 3
  /\ last["AttrPrivate"] = "set"
  /\ last["AttrStatic"] = "set"
  /\ last["AttrPublic"] = "clear"
  /\ attrs = BitOr(AttrPrivate, AttrStatic)

\* C9: attrSetter changes no bit outside the mask `what`; with set = true
\* the result is r | what and with set = false it is r & ~what, for every
\* register, one with bit 31 included.
C9_Frame ==
  op = "attrSetter" =>
    /\ \A i \in BitPositions \ what : (i \in attrs) = (i \in prev)
    /\ set => attrs = BitOr(prev, what)
    /\ ~set => attrs = BitAnd(prev, BitNot(what))

\* VisibilityAttrs has been set in a register with bit 31 and many others.
C9_Witness ==
  /\ op = "attrSetter"
  /\ set
  /\ what = VisibilityAttrs
  /\ TopBit \in prev
  /\ TopBit \in attrs
  /\ attrs # prev

AllDone == \A c \in Callers : pc[c] = "done"

BothSet ==
  /\ \A c \in Callers : args[c].set
  /\ \A c, d \in Callers : c # d => args[c].what # args[d].what

\* C10: when two callers have run attrSetter(set = true) with different
\* single-bit flags on the same register, the register has both flags if the
\* calls were serialized; a flag is missing from the final register only
\* when the other caller had loaded the register before that flag was stored.
C10_SerializedKeepsBoth ==
  (AllDone /\ BothSet) =>
    /\ serialized => \A c \in Callers : hasFlag(attrs, args[c].what)
    /\ \A c \in Callers :
         ~hasFlag(attrs, args[c].what) =>
           \E d \in Callers \ {c} : ~hasFlag(tmp[d], args[c].what)

\* A lost update: both unserialized calls are over and one flag is missing.
C10_Witness ==
  /\ ~serialized
  /\ AllDone
  /\ BothSet
  /\ \E c \in Callers : ~hasFlag(attrs, args[c].what)

====
